---- MODULE Spec2Model ----
(***************************************************************************)
(* The transfer flow of my-first-transaction/transaction.py: main() walks   *)
(* one coin transfer through fund, balance queries, build, simulate, sign,  *)
(* submit, wait and receipt against a ledger reached through the SDK's      *)
(* RestClient and FaucetClient.  The script is one coroutine: every await   *)
(* is one action, and an exception raised by an awaited call leaves main()  *)
(* (the script has no try/except).  The ledger behind the client is not     *)
(* part of the script; its state and its answers are modelled from the      *)
(* specification's description of the collaborators.                        *)
(***************************************************************************)
EXTENDS Integers, Sequences, FiniteSets, TLC

\* ------------------------------------------------------------------ bounds
\* the clock (seconds) runs from 0 to MaxClock
MaxClock == 2
\* gas units a simulation or an execution may report: 0..MaxGasSample, and
\* the transaction's own max_gas_amount
MaxGasSample == 2

\* --------------------------------------------------------- script constants
alice_amount == 100000000
bob_amount == 0
transfer_amount == 1000
max_gas_amount == 2000
gas_unit_price == 100
expiration_secs == 600

alice == "alice"
bob == "bob"
Address == {alice, bob}

\* An unassigned local is the empty tuple, an assigned one a 1-tuple.
None == << >>
Some(x) == << x >>
Val(o) == o[1]
IsSet(o) == o # None

\* The chain identifiers a network may report.
ChainIds == {4, 5}

\* RestClient(NODE_URL) is built with the SDK's client configuration; the
\* script sets none of it, so any of these may be in force.
ClientConfigs ==
    [max_gas_amount : {max_gas_amount, 100000},
     gas_unit_price : {gas_unit_price, 150},
     expiration_ttl : {expiration_secs}]

VARIABLES
    pc,                \* the statement of main() that runs next
    locals,            \* main()'s local variables
    balance,           \* ledger: octas per address
    created,           \* ledger: whether the address exists on chain
    seq,               \* ledger: next expected sequence number per address
    txs,               \* ledger: submitted transactions, indexed by hash
    ledger_chain_id,   \* ledger: chain identifier of the network
    client_config,     \* RestClient's configuration
    clock,             \* time.time()
    log                \* what has run: <<[stage, result]>>

vars == << pc, locals, balance, created, seq, txs, ledger_chain_id,
           client_config, clock, log >>

ledger == << balance, created, seq, txs >>

\* ------------------------------------------------------------ control flow
\* The order of the awaited statements of main().
SuccessorSkipsSign(stage) ==
    CASE stage = "fund_account" -> "alice_balance"
      [] stage = "alice_balance" -> "bob_balance"
      [] stage = "bob_balance" -> "entry_function"
      [] stage = "entry_function" -> "chain_id"
      [] stage = "chain_id" -> "account"
      [] stage = "account" -> "raw_transaction"
      [] stage = "raw_transaction" -> "create_bcs_transaction"
      [] stage = "create_bcs_transaction" -> "simulate_transaction"
      [] stage = "simulate_transaction" -> "submit_bcs_transaction"
      [] stage = "create_bcs_signed_transaction" -> "submit_bcs_transaction"
      [] stage = "submit_bcs_transaction" -> "wait_for_transaction"
      [] stage = "wait_for_transaction" -> "transaction_by_hash"
      [] stage = "transaction_by_hash" -> "alice_final_balance"
      [] stage = "alice_final_balance" -> "bob_final_balance"
      [] OTHER -> "done"

SuccessorFetchesBeforeWait(stage) ==
    CASE stage = "fund_account" -> "alice_balance"
      [] stage = "alice_balance" -> "bob_balance"
      [] stage = "bob_balance" -> "entry_function"
      [] stage = "entry_function" -> "chain_id"
      [] stage = "chain_id" -> "account"
      [] stage = "account" -> "raw_transaction"
      [] stage = "raw_transaction" -> "create_bcs_transaction"
      [] stage = "create_bcs_transaction" -> "simulate_transaction"
      [] stage = "simulate_transaction" -> "create_bcs_signed_transaction"
      [] stage = "create_bcs_signed_transaction" -> "submit_bcs_transaction"
      [] stage = "submit_bcs_transaction" -> "transaction_by_hash"
      [] stage = "wait_for_transaction" -> "alice_final_balance"
      [] stage = "transaction_by_hash" -> "wait_for_transaction"
      [] stage = "alice_final_balance" -> "bob_final_balance"
      [] OTHER -> "done"

Successor(stage) ==
    CASE stage = "fund_account" -> "alice_balance"
      [] stage = "alice_balance" -> "bob_balance"
      [] stage = "bob_balance" -> "entry_function"
      [] stage = "entry_function" -> "chain_id"
      [] stage = "chain_id" -> "account"
      [] stage = "account" -> "raw_transaction"
      [] stage = "raw_transaction" -> "create_bcs_transaction"
      [] stage = "create_bcs_transaction" -> "simulate_transaction"
      [] stage = "simulate_transaction" -> "create_bcs_signed_transaction"
      [] stage = "create_bcs_signed_transaction" -> "submit_bcs_transaction"
      [] stage = "submit_bcs_transaction" -> "wait_for_transaction"
      [] stage = "wait_for_transaction" -> "transaction_by_hash"
      [] stage = "transaction_by_hash" -> "alice_final_balance"
      [] stage = "alice_final_balance" -> "bob_final_balance"
      [] OTHER -> "done"

FlowStages ==
    {"fund_account", "alice_balance", "bob_balance", "entry_function",
     "chain_id", "account", "raw_transaction", "create_bcs_transaction",
     "simulate_transaction", "create_bcs_signed_transaction",
     "submit_bcs_transaction", "wait_for_transaction", "transaction_by_hash",
     "alice_final_balance", "bob_final_balance"}

\* The statement returned: the next one runs.
Returns(stage) ==
    /\ pc' = Successor(stage)
    /\ log' = Append(log, [stage |-> stage, result |-> "ok"])

\* A retry loop around the failed call, instead of the exception leaving main().
RaisesAndRetries(stage) ==
    /\ pc' = stage
    /\ log' = Append(log, [stage |-> stage, result |-> "raised"])
    /\ UNCHANGED << locals, ledger, ledger_chain_id, client_config, clock >>

\* The awaited call raised: nothing in main() catches it, so main() ends and
\* asyncio.run re-raises it.
Raises(stage) ==
    /\ pc' = "aborted"
    /\ log' = Append(log, [stage |-> stage, result |-> "raised"])
    /\ UNCHANGED << locals, ledger, ledger_chain_id, client_config, clock >>

\* ------------------------------------------------------------------ values
\* EntryFunction.natural("0x1::aptos_account", "transfer", [], [bob, 1000])
\* with the amount of bob_amount's line instead of 1000.
entry_function_wrong_amount ==
    [module |-> "0x1::aptos_account", function |-> "transfer",
     ty_args |-> << >>, args |-> << bob, bob_amount >>]

entry_function ==
    [module |-> "0x1::aptos_account", function |-> "transfer",
     ty_args |-> << >>, args |-> << bob, transfer_amount >>]

\* TransactionPayload(entry_function): a wrapper, equal when its content is.
TransactionPayload(ef) == [variant |-> "entry_function", value |-> ef]

\* RawTransaction(...) of the build stage, with the script's own literals.
RawTransaction(sender, sequence_number, payload, chain_id) ==
    [sender |-> sender,
     sequence_number |-> sequence_number,
     payload |-> payload,
     max_gas_amount |-> max_gas_amount,
     gas_unit_price |-> gas_unit_price,
     expiration_timestamps_secs |-> clock + expiration_secs,
     chain_id |-> chain_id]

\* The raw transaction the client assembles inside create_bcs_transaction and
\* create_bcs_signed_transaction: the caller hands over the account, the
\* payload and (optionally) the sequence number; the fee fields, the expiry
\* and the chain identifier are the client's.
ClientRawTransaction(sender, payload, sequence_number) ==
    [sender |-> sender,
     sequence_number |-> sequence_number,
     payload |-> payload,
     max_gas_amount |-> client_config.max_gas_amount,
     gas_unit_price |-> client_config.gas_unit_price,
     expiration_timestamps_secs |-> clock + client_config.expiration_ttl,
     chain_id |-> ledger_chain_id]

\* A signature by the account's key over the raw transaction.
Sign(account, raw) == [signer |-> account, over |-> raw]

SignedTransaction(account, raw) ==
    [raw |-> raw, authenticator |-> Sign(account, raw)]

\* -------------------------------------------------------------- the ledger
\* What account_balance(address) may answer: it raises (None), or it returns
\* the balance.  For an address that was never created the script expects a
\* number (it logs "Bob: ... octas" and goes on), the specification expects
\* AccountNotFound; the client's code is not part of the script, so both
\* answers are possible.
AccountBalanceResults(address) ==
    {None} \cup {Some(IF created[address] THEN balance[address] ELSE 0)}

\* Gas units an execution or a simulation of a transaction may report.
GasUsedValues(raw) ==
    {g \in (0 .. MaxGasSample) \cup {raw.max_gas_amount} :
        g <= raw.max_gas_amount}

Fee(raw, gas) == gas * raw.gas_unit_price

TransferAmount(raw) == raw.payload.value.args[2]
Recipient(raw) == raw.payload.value.args[1]

Hashes == 1 .. Len(txs)

\* The ledger takes a signed transaction when the signature is the sender's
\* over these fields, the chain is this one, the sequence number is the
\* sender's next expected one and no submission holds it already.
SubmitAccepts(signed) ==
    /\ signed.authenticator = Sign(signed.raw.sender, signed.raw)
    /\ signed.raw.chain_id = ledger_chain_id
    /\ signed.raw.sequence_number = seq[signed.raw.sender]
    /\ \A h \in Hashes :
          ~ ( /\ txs[h].signed.raw.sender = signed.raw.sender
              /\ txs[h].signed.raw.sequence_number = signed.raw.sequence_number )

Terminal(h) == h \in Hashes /\ txs[h].status \in {"committed", "rejected"}

\* The receipt of a finalized transaction.
Receipt(h) ==
    [hash |-> h,
     success |-> (txs[h].status = "committed"),
     vm_status |-> txs[h].status,
     gas_used |-> txs[h].gas_used]

\* The ledger finalizes a pending transaction: it commits it (the transfer is
\* applied and the fee charged to the sender) or rejects it (no effect).
LedgerFinalize ==
    \E h \in Hashes :
        /\ txs[h].status = "pending"
        /\ LET raw == txs[h].signed.raw IN
           \/ \E g \in GasUsedValues(raw) :
                /\ balance[raw.sender] >= TransferAmount(raw) + Fee(raw, g)
                /\ raw.sequence_number = seq[raw.sender]
                /\ balance' =
                      [a \in Address |->
                          balance[a]
                          - (IF a = raw.sender
                               THEN TransferAmount(raw) + Fee(raw, g) ELSE 0)
                          + (IF a = Recipient(raw)
                               THEN TransferAmount(raw) ELSE 0)]
                /\ created' = [created EXCEPT ![Recipient(raw)] = TRUE]
                /\ seq' = [seq EXCEPT ![raw.sender] = @ + 1]
                /\ txs' = [txs EXCEPT ![h].status = "committed",
                                      ![h].gas_used = g]
                /\ log' = Append(log, [stage |-> "finalize",
                                       result |-> "committed"])
           \/ /\ txs' = [txs EXCEPT ![h].status = "rejected"]
              /\ log' = Append(log, [stage |-> "finalize",
                                     result |-> "rejected"])
              /\ UNCHANGED << balance, created, seq >>
        /\ UNCHANGED << pc, locals, ledger_chain_id, client_config, clock >>

\* Time passes.
Tick ==
    /\ clock < MaxClock
    /\ clock' = clock + 1
    /\ UNCHANGED << pc, locals, ledger, ledger_chain_id, client_config, log >>

\* ------------------------------------------------------------- the script
NoLocals ==
    [alice_balance |-> None, bob_balance |-> None, chain_id |-> None,
     sequence_number |-> None, raw_transaction |-> None,
     simulation_transaction |-> None, gas_used |-> None,
     gas_unit_price |-> None, success |-> None, signed_transaction |-> None,
     transaction_hash |-> None, transaction_details |-> None,
     vm_status |-> None, alice_final_balance |-> None,
     bob_final_balance |-> None]

\* rest_client, faucet_client, alice = Account.generate(), bob = Account.generate():
\* two fresh addresses the ledger has never seen.
Init ==
    /\ pc = "fund_account"
    /\ locals = NoLocals
    /\ balance = [a \in Address |-> 0]
    /\ created = [a \in Address |-> FALSE]
    /\ seq = [a \in Address |-> 0]
    /\ txs = << >>
    /\ ledger_chain_id \in ChainIds
    /\ client_config \in ClientConfigs
    /\ clock = 0
    /\ log = << >>

\* await faucet_client.fund_account(alice.address(), alice_amount)
FundAccount ==
    /\ pc = "fund_account"
    /\ \/ Raises("fund_account")
       \/ /\ balance' = [balance EXCEPT ![alice] = @ + alice_amount]
          /\ created' = [created EXCEPT ![alice] = TRUE]
          /\ Returns("fund_account")
          /\ UNCHANGED << locals, seq, txs, ledger_chain_id, client_config,
                          clock >>

\* name = await rest_client.account_balance(address)
AccountBalance(stage, address, name) ==
    /\ pc = stage
    /\ \E r \in AccountBalanceResults(address) :
          \/ r = None /\ Raises(stage)
          \/ /\ r # None
             /\ locals' = [locals EXCEPT ![name] = r]
             /\ Returns(stage)
             /\ UNCHANGED << ledger, ledger_chain_id, client_config, clock >>

AliceBalance == AccountBalance("alice_balance", alice, "alice_balance")

BobBalance == AccountBalance("bob_balance", bob, "bob_balance")

\* entry_function = EntryFunction.natural(...): local, no call to the ledger.
BuildEntryFunction ==
    /\ pc = "entry_function"
    /\ Returns("entry_function")
    /\ UNCHANGED << locals, ledger, ledger_chain_id, client_config, clock >>

\* chain_id = await rest_client.chain_id()
ChainId ==
    /\ pc = "chain_id"
    /\ \/ Raises("chain_id")
       \/ /\ locals' = [locals EXCEPT !.chain_id = Some(ledger_chain_id)]
          /\ Returns("chain_id")
          /\ UNCHANGED << ledger, ledger_chain_id, client_config, clock >>

\* account_data = await rest_client.account(alice.address())
\* sequence_number = int(account_data["sequence_number"])
AccountData ==
    /\ pc = "account"
    /\ \/ Raises("account")
       \/ /\ created[alice]
          /\ locals' = [locals EXCEPT !.sequence_number = Some(seq[alice])]
          /\ Returns("account")
          /\ UNCHANGED << ledger, ledger_chain_id, client_config, clock >>

\* raw_transaction = RawTransaction(sender = alice.address(), ...)
BuildRawTransaction ==
    /\ pc = "raw_transaction"
    /\ locals' = [locals EXCEPT !.raw_transaction =
          Some(RawTransaction(alice, Val(locals.sequence_number),
                              TransactionPayload(entry_function),
                              Val(locals.chain_id)))]
    /\ Returns("raw_transaction")
    /\ UNCHANGED << ledger, ledger_chain_id, client_config, clock >>

\* simulation_transaction = await rest_client.create_bcs_transaction(alice, payload)
CreateBcsTransaction ==
    /\ pc = "create_bcs_transaction"
    /\ \/ Raises("create_bcs_transaction")
       \/ /\ locals' = [locals EXCEPT !.simulation_transaction =
                Some(ClientRawTransaction(alice,
                        TransactionPayload(entry_function), seq[alice]))]
          /\ Returns("create_bcs_transaction")
          /\ UNCHANGED << ledger, ledger_chain_id, client_config, clock >>

\* The simulation reported as an error when it predicts failure.
SimulateTransactionRaisesOnFailure ==
    /\ pc = "simulate_transaction"
    /\ \/ Raises("simulate_transaction")
       \/ \E g \in GasUsedValues(Val(locals.simulation_transaction)),
             ok \in BOOLEAN :
             /\ locals' = [locals EXCEPT
                   !.gas_used = Some(g),
                   !.gas_unit_price =
                       Some(Val(locals.simulation_transaction).gas_unit_price),
                   !.success = Some(ok)]
             /\ pc' = IF ok THEN Successor("simulate_transaction")
                            ELSE "aborted"
             /\ log' = Append(log, [stage |-> "simulate_transaction",
                                    result |-> IF ok THEN "ok" ELSE "raised"])
             /\ UNCHANGED << ledger, ledger_chain_id, client_config, clock >>

\* The transaction sent for execution where it should only be simulated.
SimulateTransactionSubmits ==
    /\ pc = "simulate_transaction"
    /\ \/ Raises("simulate_transaction")
       \/ \E g \in GasUsedValues(Val(locals.simulation_transaction)),
             ok \in BOOLEAN :
             /\ locals' = [locals EXCEPT
                   !.gas_used = Some(g),
                   !.gas_unit_price =
                       Some(Val(locals.simulation_transaction).gas_unit_price),
                   !.success = Some(ok)]
             /\ txs' = Append(txs,
                   [signed |-> SignedTransaction(alice,
                                  Val(locals.simulation_transaction)),
                    status |-> "pending", gas_used |-> 0])
             /\ Returns("simulate_transaction")
             /\ UNCHANGED << balance, created, seq, ledger_chain_id,
                             client_config, clock >>

\* simulation_result = await rest_client.simulate_transaction(simulation_transaction, alice)
\* gas_used, gas_unit_price, success = simulation_result[0][...]
\* The ledger dry-runs the transaction and commits nothing; a predicted
\* failure is a result (success = False), and the script goes on either way.
SimulateTransaction ==
    /\ pc = "simulate_transaction"
    /\ \/ Raises("simulate_transaction")
       \/ \E g \in GasUsedValues(Val(locals.simulation_transaction)),
             ok \in BOOLEAN :
             /\ locals' = [locals EXCEPT
                   !.gas_used = Some(g),
                   !.gas_unit_price =
                       Some(Val(locals.simulation_transaction).gas_unit_price),
                   !.success = Some(ok)]
             /\ Returns("simulate_transaction")
             /\ UNCHANGED << ledger, ledger_chain_id, client_config, clock >>

\* signed_transaction = await rest_client.create_bcs_signed_transaction(
\*     alice, TransactionPayload(entry_function), sequence_number = sequence_number)
CreateBcsSignedTransaction ==
    /\ pc = "create_bcs_signed_transaction"
    /\ \/ Raises("create_bcs_signed_transaction")
       \/ /\ locals' = [locals EXCEPT !.signed_transaction =
                Some(SignedTransaction(alice,
                        ClientRawTransaction(alice,
                            TransactionPayload(entry_function),
                            Val(locals.sequence_number))))]
          /\ Returns("create_bcs_signed_transaction")
          /\ UNCHANGED << ledger, ledger_chain_id, client_config, clock >>

\* transaction_hash = await rest_client.submit_bcs_transaction(signed_transaction)
SubmitBcsTransaction ==
    /\ pc = "submit_bcs_transaction"
    /\ \/ Raises("submit_bcs_transaction")
       \/ /\ IsSet(locals.signed_transaction)
          /\ SubmitAccepts(Val(locals.signed_transaction))
          /\ txs' = Append(txs, [signed |-> Val(locals.signed_transaction),
                                 status |-> "pending", gas_used |-> 0])
          /\ locals' = [locals EXCEPT !.transaction_hash = Some(Len(txs) + 1)]
          /\ Returns("submit_bcs_transaction")
          /\ UNCHANGED << balance, created, seq, ledger_chain_id,
                          client_config, clock >>

\* await rest_client.wait_for_transaction(transaction_hash): returns once the
\* transaction is finalized, raises otherwise (the wait timed out).
WaitForTransaction ==
    /\ pc = "wait_for_transaction"
    /\ \/ Raises("wait_for_transaction")
       \/ /\ IsSet(locals.transaction_hash)
          /\ Terminal(Val(locals.transaction_hash))
          /\ Returns("wait_for_transaction")
          /\ UNCHANGED << locals, ledger, ledger_chain_id, client_config,
                          clock >>

\* What transaction_by_hash(hash) answers: the receipt of a finalized
\* transaction, nothing (it raises) for any other hash.
TransactionByHashResults(h) ==
    {None} \cup (IF Terminal(h) THEN {Some(Receipt(h))} ELSE {})

\* transaction_details = await rest_client.transaction_by_hash(transaction_hash)
\* success, vm_status, gas_used = transaction_details[...]
TransactionByHash ==
    /\ pc = "transaction_by_hash"
    /\ \E r \in TransactionByHashResults(
                   IF IsSet(locals.transaction_hash)
                     THEN Val(locals.transaction_hash) ELSE 0) :
          \/ r = None /\ Raises("transaction_by_hash")
          \/ /\ r # None
             /\ locals' = [locals EXCEPT
                   !.transaction_details = r,
                   !.success = Some(Val(r).success),
                   !.vm_status = Some(Val(r).vm_status),
                   !.gas_used = Some(Val(r).gas_used)]
             /\ Returns("transaction_by_hash")
             /\ UNCHANGED << ledger, ledger_chain_id, client_config, clock >>

AliceFinalBalance ==
    AccountBalance("alice_final_balance", alice, "alice_final_balance")

BobFinalBalance ==
    AccountBalance("bob_final_balance", bob, "bob_final_balance")

Next ==
    \/ FundAccount
    \/ AliceBalance
    \/ BobBalance
    \/ BuildEntryFunction
    \/ ChainId
    \/ AccountData
    \/ BuildRawTransaction
    \/ CreateBcsTransaction
    \/ SimulateTransaction
    \/ CreateBcsSignedTransaction
    \/ SubmitBcsTransaction
    \/ WaitForTransaction
    \/ TransactionByHash
    \/ AliceFinalBalance
    \/ BobFinalBalance
    \/ LedgerFinalize
    \/ Tick

Spec == Init /\ [][Next]_vars

\* ------------------------------------------------------------ the claims
IsPrefix(s, t) ==
    /\ Len(s) <= Len(t)
    /\ \A i \in 1 .. Len(s) : s[i] = t[i]

IsFlowEntry(e) == e.stage \in FlowStages

\* The statements of main() that have run, in order, each with its result.
FlowLog == SelectSeq(log, IsFlowEntry)

Attempted(stage) == \E i \in 1 .. Len(FlowLog) : FlowLog[i].stage = stage

Returned(stage) ==
    \E i \in 1 .. Len(FlowLog) :
        FlowLog[i].stage = stage /\ FlowLog[i].result = "ok"

LastFlowEntry == FlowLog[Len(FlowLog)]

IsLifecycleEntry(e) ==
    \/ e.stage = "finalize"
    \/ /\ e.result = "ok"
       /\ e.stage \in {"raw_transaction", "simulate_transaction",
                       "create_bcs_signed_transaction",
                       "submit_bcs_transaction"}

StageName(e) ==
    CASE e.stage = "raw_transaction" -> "Built"
      [] e.stage = "simulate_transaction" -> "Simulated"
      [] e.stage = "create_bcs_signed_transaction" -> "Signed"
      [] e.stage = "submit_bcs_transaction" -> "Submitted"
      [] e.stage = "finalize" /\ e.result = "committed" -> "Committed"
      [] OTHER -> "Rejected"

\* The lifecycle stages the transaction has entered, in order.
Lifecycle ==
    LET L == SelectSeq(log, IsLifecycleEntry)
    IN  [i \in 1 .. Len(L) |-> StageName(L[i])]

\* C1: when the flow has run to its end and the transaction was committed,
\* alice was funded with 100,000,000, her final balance is her initial
\* balance minus 1,000 and the fee consumed (gas used times the submitted
\* transaction's gas unit price), and bob's final balance is his initial
\* balance plus exactly 1,000.
C1_EndToEndTransfer ==
    (pc = "done" /\ locals.success = Some(TRUE)) =>
        /\ Val(locals.alice_balance) = 100000000
        /\ Val(locals.alice_final_balance) =
              Val(locals.alice_balance)
              - (1000 + Fee(Val(locals.signed_transaction).raw,
                            Val(locals.gas_used)))
        /\ Val(locals.bob_final_balance) = Val(locals.bob_balance) + 1000

C1_Witness ==
    /\ pc = "done"
    /\ locals.success = Some(TRUE)
    /\ Val(locals.gas_used) > 0

\* C2: the transaction's stages are entered in the order Built, Simulated,
\* Signed, Submitted, then Committed or Rejected, each at most once; a
\* statement runs only when the results it needs are there (submit only with
\* the signed artifact), and the ledger holds at most one submission, which
\* is the signed artifact.
C2_StageOrder ==
    /\ \E final \in {"Committed", "Rejected"} :
          IsPrefix(Lifecycle,
                   << "Built", "Simulated", "Signed", "Submitted", final >>)
    /\ pc = "raw_transaction" =>
          IsSet(locals.chain_id) /\ IsSet(locals.sequence_number)
    /\ pc = "simulate_transaction" => IsSet(locals.simulation_transaction)
    /\ pc = "create_bcs_signed_transaction" =>
          IsSet(locals.raw_transaction) /\ IsSet(locals.success)
    /\ pc = "submit_bcs_transaction" => IsSet(locals.signed_transaction)
    /\ pc = "wait_for_transaction" => IsSet(locals.transaction_hash)
    /\ pc = "transaction_by_hash" => Returned("wait_for_transaction")
    /\ Len(txs) <= 1
    /\ \A h \in Hashes : locals.signed_transaction = Some(txs[h].signed)

C2_Witness ==
    Lifecycle = << "Built", "Simulated", "Signed", "Submitted", "Rejected" >>

\* C4: the simulation (building the transaction to simulate, then the
\* dry run) leaves every balance, every sequence number and the ledger's
\* transactions as they were, whatever it predicts; and when the flow signs
\* and submits, the sequence number it fetched is still alice's next one.
C4_SimulateLeavesLedger ==
    /\ [][ ( /\ pc \in {"create_bcs_transaction", "simulate_transaction"}
             /\ pc' # pc ) => UNCHANGED ledger ]_vars
    /\ [] ( pc \in {"create_bcs_signed_transaction", "submit_bcs_transaction"}
            => locals.sequence_number = Some(seq[alice]) )

C4_Witness ==
    /\ pc = "submit_bcs_transaction"
    /\ locals.success = Some(FALSE)
    /\ Val(locals.gas_used) > 0

\* C6: a receipt is returned only for the hash of a finalized transaction
\* (never for an unknown or a pending one) and it is that transaction's
\* terminal receipt; the flow fetches the receipt only after
\* wait_for_transaction has returned, when the transaction is finalized.
C6_ReceiptOnlyWhenFinalized ==
    /\ \A h \in 0 .. (Len(txs) + 1) :
          \A r \in TransactionByHashResults(h) :
              r # None => Terminal(h) /\ Val(r).hash = h
    /\ IsSet(locals.transaction_details) =>
          /\ Terminal(Val(locals.transaction_hash))
          /\ Val(locals.transaction_details) =
                Receipt(Val(locals.transaction_hash))
    /\ pc = "transaction_by_hash" =>
          /\ LastFlowEntry = [stage |-> "wait_for_transaction", result |-> "ok"]
          /\ Terminal(Val(locals.transaction_hash))

C6_Witness ==
    /\ IsSet(locals.transaction_details)
    /\ Val(locals.transaction_details).success

\* C7: a statement that raised is the last statement of the flow that ran and
\* the flow is over; no statement runs twice; and a flow that ended without
\* attempting the submission left the ledger as the funding left it.
C7_AbortOnFailure ==
    /\ \A i \in 1 .. Len(FlowLog) :
          FlowLog[i].result = "raised" => i = Len(FlowLog) /\ pc = "aborted"
    /\ \A i, j \in 1 .. Len(FlowLog) :
          i # j => FlowLog[i].stage # FlowLog[j].stage
    /\ (pc = "aborted" /\ ~ Attempted("submit_bcs_transaction")) =>
          /\ txs = << >>
          /\ seq = [a \in Address |-> 0]
          /\ created = [a \in Address |-> a = alice /\ Returned("fund_account")]
          /\ balance = [a \in Address |->
                           IF a = alice /\ Returned("fund_account")
                             THEN alice_amount ELSE 0]

C7_Witness ==
    /\ pc = "aborted"
    /\ LastFlowEntry = [stage |-> "create_bcs_signed_transaction",
                        result |-> "raised"]

\* C8: the signed transaction is the raw transaction of the build stage
\* (sender, sequence number, payload, max gas 2,000, gas unit price 100,
\* expiry at build time + 600 s, chain identifier) plus a signature over it.
C8_SignedIsRawPlusSignature ==
    IsSet(locals.signed_transaction) =>
        /\ Val(locals.signed_transaction).raw = Val(locals.raw_transaction)
        /\ Val(locals.signed_transaction).authenticator =
              Sign(alice, Val(locals.raw_transaction))

\* C10: a simulation that returned a prediction, failure included, returned
\* normally and the flow stands at the signing statement, not aborted.
C10_PredictedFailureIsAdvisory ==
    ( /\ Len(FlowLog) > 0
      /\ LastFlowEntry.stage = "simulate_transaction"
      /\ IsSet(locals.success) ) =>
        /\ LastFlowEntry.result = "ok"
        /\ pc = "create_bcs_signed_transaction"

C10_Witness ==
    /\ pc = "wait_for_transaction"
    /\ locals.success = Some(FALSE)
    /\ Returned("submit_bcs_transaction")

====
